---------------------------- MODULE Spec2Model ----------------------------
(***************************************************************************)
(* Model of .claude-workflow/scripts/init-workflow.py: the command line    *)
(* entry point main() and WorkflowInitializer.initialize() with its five   *)
(* steps, acting on a file system that holds the project tree and a        *)
(* template source tree.                                                   *)
(*                                                                         *)
(* A path is the sequence of its components below a root directory.  A     *)
(* file's content is a sequence of <<field, value>> pairs of strings: the  *)
(* interpolated fields of the text the code writes (the static text of a   *)
(* document is represented by its "doc" field).                            *)
(*                                                                         *)
(* The file system may refuse one path of the project tree during a run    *)
(* (variable fault): creating or opening it fails with EACCES, or writing  *)
(* it fails with ENOSPC after the file was truncated.  initialize() is     *)
(* entered through main(), which always passes a dict as config_data.      *)
(***************************************************************************)
EXTENDS Naturals, Sequences, FiniteSets

VARIABLES
    fs,          \* root -> (path -> node): the directory trees on disk
    fault,       \* the path of the project tree the file system refuses, and how
    pc,          \* where the process is: idle, inside a step, done or raised
    i,           \* loop index inside copy_templates / create_initial_state
    args,        \* the parsed command line of the current run (argparse namespace)
    config_data, \* the dict main() hands to initialize()
    date,        \* self.date of the current WorkflowInitializer
    console,     \* what the current run printed for the template step
    calls,       \* the steps the current run has called and returned from
    raisedIn,    \* the step whose exception ended the current run ("" if none)
    completed,   \* number of runs of initialize() that returned normally
    runs         \* number of runs started

vars == <<fs, fault, pc, i, args, config_data, date, console, calls,
          raisedIn, completed, runs>>

-----------------------------------------------------------------------------
(* Bounds of the model *)

MaxRuns == 2
MaxTokens == 2

-----------------------------------------------------------------------------
(* Python values: a value is <<type, str(value)>> *)

None == <<"NoneType", "None">>
PyStr(s) == <<"str", s>>
PyTrue == <<"bool", "True">>
PyFalse == <<"bool", "False">>

\* str(v), also what "{}".format(v) and an f-string produce
Str(v) == v[2]

\* bool(v) for the values the command line yields: None and "" are falsy
Truthy(v) == v # None /\ v # PyStr("")

\* str.lower() on the strings that occur
Lower(s) ==
    CASE s = "True" -> "true"
      [] s = "False" -> "false"
      [] s = "GATEWAY" -> "gateway"
      [] s = "Hmi" -> "hmi"
      [] OTHER -> s

\* dict.get(key, default)
Get(d, k, default) == IF k \in DOMAIN d THEN d[k] ELSE default

-----------------------------------------------------------------------------
(* Paths *)

ProjectRoot == "proj"
TemplateRoot == "tpl"
Roots == {ProjectRoot, TemplateRoot}

\* Path(project_path).resolve().name
BaseName(root) == root

\* self.workflow_dir, relative to the project root
workflow_dir == <<".claude-workflow">>

Parent(p) == SubSeq(p, 1, Len(p) - 1)
Prefixes(p) == {SubSeq(p, 1, k) : k \in 0..Len(p)}
Under(p, q) == Len(q) >= Len(p) /\ SubSeq(q, 1, Len(p)) = p

PlatformIds ==
    <<"gateway", "hmi", "configuration", "cloud", "app", "edge-ai", "scada",
      "web-editor">>

\* the list "dirs" of create_directories
dirs ==
    << <<"01-requirements", "raw-requirements">>,
       <<"01-requirements", "functional-requirements">>,
       <<"01-requirements", "user-stories">>,
       <<"02-planning">>,
       <<"03-design", "architecture", "adr">>,
       <<"03-design", "technical-solutions">>,
       <<"03-design", "api-design">>,
       <<"03-design", "database-design">>,
       <<"04-implementation", "implementation-plans">>,
       <<"04-implementation", "code-mapping">>,
       <<"04-implementation", "implementation-logs">>,
       <<"05-verification", "test-plans">>,
       <<"05-verification", "test-cases">>,
       <<"05-verification", "verification-reports">>,
       <<"06-documentation", "technical-docs">>,
       <<"06-documentation", "user-guides">>,
       <<"06-documentation", "api-docs">>,
       <<"07-platforms", "gateway", "requirements">>,
       <<"07-platforms", "gateway", "design">>,
       <<"07-platforms", "gateway", "implementation">>,
       <<"07-platforms", "hmi", "requirements">>,
       <<"07-platforms", "hmi", "design">>,
       <<"07-platforms", "hmi", "implementation">>,
       <<"07-platforms", "configuration", "requirements">>,
       <<"07-platforms", "configuration", "design">>,
       <<"07-platforms", "configuration", "implementation">>,
       <<"07-platforms", "cloud", "requirements">>,
       <<"07-platforms", "cloud", "design">>,
       <<"07-platforms", "cloud", "implementation">>,
       <<"07-platforms", "app", "requirements">>,
       <<"07-platforms", "app", "design">>,
       <<"07-platforms", "app", "implementation">>,
       <<"07-platforms", "edge-ai", "requirements">>,
       <<"07-platforms", "edge-ai", "design">>,
       <<"07-platforms", "edge-ai", "implementation">>,
       <<"07-platforms", "scada", "requirements">>,
       <<"07-platforms", "scada", "design">>,
       <<"07-platforms", "scada", "implementation">>,
       <<"07-platforms", "web-editor", "requirements">>,
       <<"07-platforms", "web-editor", "design">>,
       <<"07-platforms", "web-editor", "implementation">>,
       <<"parallel-tasks">>,
       <<"templates">>,
       <<"state-history">> >>

\* the list "templates" of copy_templates
templates ==
    <<"REQ-template.md", "FE-template.md", "SOL-template.md", "IMP-template.md">>

\* the list "state_templates" of copy_templates
state_templates ==
    << <<"parallel-tasks", "active-tasks-template.md">>,
       <<"parallel-tasks", "task-dependencies-template.md">>,
       <<"dependency-backlog-template.md">>,
       <<"feature-to-code-map-template.md">>,
       <<"rt-matrix-template.md">> >>

\* str.replace("-template", "") on the file names that occur
ReplaceTemplate(s) ==
    CASE s = "active-tasks-template.md" -> "active-tasks.md"
      [] s = "task-dependencies-template.md" -> "task-dependencies.md"
      [] s = "dependency-backlog-template.md" -> "dependency-backlog.md"
      [] s = "feature-to-code-map-template.md" -> "feature-to-code-map.md"
      [] s = "rt-matrix-template.md" -> "rt-matrix.md"
      [] OTHER -> s

\* faulty variant: the destination keeps the template's own name
StateDestSameName(t) == t

\* template.replace("-template", "") on a relative path
StateDest(t) == [k \in 1..Len(t) |-> ReplaceTemplate(t[k])]

\* the documents create_initial_state writes, in the order it writes them
state_docs ==
    << <<"current-phase.md">>,
       <<"parallel-tasks", "active-tasks.md">>,
       <<"parallel-tasks", "task-dependencies.md">>,
       <<"dependency-backlog.md">>,
       <<"feature-to-code-map.md">>,
       <<"rt-matrix.md">> >>

config_file == workflow_dir \o <<"config.yml">>
readme == workflow_dir \o <<"README.md">>

Range(s) == {s[k] : k \in 1..Len(s)}

ManifestPaths == {workflow_dir \o d : d \in Range(dirs)}
TemplateSources == {workflow_dir \o <<"templates", t>> : t \in Range(templates)}
StateSources == {workflow_dir \o t : t \in Range(state_templates)}
StateDocs == {workflow_dir \o d : d \in Range(state_docs)}

DirPaths == UNION {Prefixes(p) : p \in ManifestPaths}
FilePaths == TemplateSources \cup StateSources \cup StateDocs \cup {config_file, readme}
AllPaths == DirPaths \cup FilePaths


-----------------------------------------------------------------------------
(* The file system *)

Absent == [kind |-> "absent", data |-> <<>>]
DirNode == [kind |-> "dir", data |-> <<>>]
File(c) == [kind |-> "file", data |-> c]

NoFault == [path |-> <<"-">>, errno |-> "none"]

\* the file system refuses to create or to write path p of the project tree
Faulty(root, p) == root = ProjectRoot /\ fault.errno # "none" /\ fault.path = p

\* faulty variant: the existence check is dropped
ExistsUnchecked(f, root, p) == TRUE

\* Path.exists()
Exists(f, root, p) == f[root][p].kind # "absent"

\* Path.is_dir()
IsDir(f, root, p) == f[root][p].kind = "dir"

\* Path.mkdir(parents=True, exist_ok=True): an existing directory is accepted,
\* missing parents are created first; a file in the way or a refused creation
\* raises, and what was created before stays.
RECURSIVE Mkdir(_, _, _)
Mkdir(f, root, p) ==
    IF f[root][p].kind = "dir" THEN [fs |-> f, ok |-> TRUE]
    ELSE IF f[root][p].kind = "file" THEN [fs |-> f, ok |-> FALSE]
    ELSE LET up == IF Len(p) = 0 THEN [fs |-> f, ok |-> TRUE]
                   ELSE IF f[root][Parent(p)].kind = "absent"
                        THEN Mkdir(f, root, Parent(p))
                        ELSE [fs |-> f, ok |-> f[root][Parent(p)].kind = "dir"]
         IN  IF ~up.ok \/ Faulty(root, p) THEN [fs |-> up.fs, ok |-> FALSE]
             ELSE [fs |-> [up.fs EXCEPT ![root][p] = DirNode], ok |-> TRUE]

\* faulty variant: an existing file is kept instead of being overwritten
WriteFileKeepExisting(f, root, p, c) ==
    IF f[root][Parent(p)].kind # "dir" \/ f[root][p].kind = "dir"
    THEN [fs |-> f, ok |-> FALSE]
    ELSE IF f[root][p].kind = "file" THEN [fs |-> f, ok |-> TRUE]
    ELSE IF Faulty(root, p)
         THEN [fs |-> IF fault.errno = "ENOSPC"
                      THEN [f EXCEPT ![root][p] = File(<<>>)] ELSE f,
               ok |-> FALSE]
         ELSE [fs |-> [f EXCEPT ![root][p] = File(c)], ok |-> TRUE]

\* open(p, "w") and write of content c (Path.write_text, and the destination
\* side of shutil.copy2): the parent must be a directory and p not one; a
\* refused open (EACCES) changes nothing, a failed write (ENOSPC) leaves the
\* file truncated.
WriteFile(f, root, p, c) ==
    IF f[root][Parent(p)].kind # "dir" \/ f[root][p].kind = "dir"
    THEN [fs |-> f, ok |-> FALSE]
    ELSE IF Faulty(root, p)
         THEN [fs |-> IF fault.errno = "ENOSPC"
                      THEN [f EXCEPT ![root][p] = File(<<>>)] ELSE f,
               ok |-> FALSE]
         ELSE [fs |-> [f EXCEPT ![root][p] = File(c)], ok |-> TRUE]

\* faulty variant: the source is moved (shutil.move) instead of copied
Move(f, sroot, sp, droot, dp) ==
    IF (sroot = droot /\ sp = dp) \/ f[sroot][sp].kind # "file"
    THEN [fs |-> f, ok |-> FALSE]
    ELSE LET r == WriteFile(f, droot, dp, f[sroot][sp].data)
         IN  IF r.ok THEN [fs |-> [r.fs EXCEPT ![sroot][sp] = Absent], ok |-> TRUE]
             ELSE r

\* shutil.copy2(source, dest) of an existing source: the same file on both
\* sides raises SameFileError, a directory as source raises, otherwise the
\* destination is opened for writing and receives the source's content.
\* (copy2 would copy into a destination that is a directory; the destinations
\* used here are file paths that no step ever makes a directory.)
Copy2(f, sroot, sp, droot, dp) ==
    IF (sroot = droot /\ sp = dp) \/ f[sroot][sp].kind # "file"
    THEN [fs |-> f, ok |-> FALSE]
    ELSE WriteFile(f, droot, dp, f[sroot][sp].data)

-----------------------------------------------------------------------------
(* main(): the command line *)

Put(d, k, v) == [x \in DOMAIN d \cup {k} |-> IF x = k THEN v ELSE d[x]]

\* faulty variant: the loop stops at the first unrecognized name instead of skipping it
RECURSIVE SetPlatformsBreak(_, _)
SetPlatformsBreak(d, toks) ==
    IF toks = <<>> \/ Head(toks) \notin Range(PlatformIds) THEN d
    ELSE SetPlatformsBreak(Put(d, Head(toks), PyTrue), Tail(toks))

\* the loop "for platform in platforms" of main(), over the split tokens
RECURSIVE SetPlatforms(_, _)
SetPlatforms(d, toks) ==
    IF toks = <<>> THEN d
    ELSE SetPlatforms(IF Head(toks) \in Range(PlatformIds)
                      THEN Put(d, Head(toks), PyTrue) ELSE d,
                      Tail(toks))

\* args.platforms is the option's value split at its commas; <<>> stands for
\* None (option not given) and <<"">> is the empty string: both are falsy
PlatformsGiven(v) == v # <<>> /\ v # <<"">>

\* args.platforms.lower().split(",")
LowerSplit(v) == [k \in 1..Len(v) |-> Lower(v[k])]

\* config_data as main() builds it
ParseArgs(a) ==
    LET base == [k \in {"project_name", "project_type"} |->
                    IF k = "project_name" THEN a.project_name ELSE a.project_type]
    IN  IF PlatformsGiven(a.platforms)
        THEN SetPlatforms(base, LowerSplit(a.platforms))
        ELSE base

-----------------------------------------------------------------------------
(* What the steps write *)

\* display names of the platforms table (non-ASCII literals in the source)
PlatformName(id) ==
    CASE id = "gateway" -> "name-gateway"
      [] id = "hmi" -> "name-hmi"
      [] id = "configuration" -> "name-configuration"
      [] id = "cloud" -> "name-cloud"
      [] id = "app" -> "name-app"
      [] id = "edge-ai" -> "name-edge-ai"
      [] id = "scada" -> "name-scada"
      [] id = "web-editor" -> "name-web-editor"

\* default_config["project"]["name"]
ConfigName(cd) == Get(cd, "project_name", PyStr("My Project"))

\* default_config["platforms"][k]["enabled"]
Enabled(cd, id) == Get(cd, id, PyFalse)

\* yaml_content of create_initial_config
YamlContent(cd) ==
    << <<"project.name", Str(ConfigName(cd))>>,
       <<"project.type", Str(Get(cd, "project_type", PyStr("application")))>>,
       <<"project.version", "1.0.0">> >>
    \o [k \in 1..(3 * Len(PlatformIds)) |->
          LET id == PlatformIds[((k - 1) \div 3) + 1]
          IN  CASE (k - 1) % 3 = 0 -> <<"id", id>>
                [] (k - 1) % 3 = 1 -> <<"name", PlatformName(id)>>
                [] OTHER -> <<"enabled", Lower(Str(Enabled(cd, id)))>>]

\* the text create_initial_state writes to its k-th document
StateContent(k, root, d) ==
    CASE k = 1 -> << <<"doc", "current-phase.md">>,
                     <<"project", BaseName(root)>>, <<"date", d>> >>
      [] k = 2 -> << <<"doc", "active-tasks.md">>, <<"date", d>> >>
      [] k = 3 -> << <<"doc", "task-dependencies.md">> >>
      [] k = 4 -> << <<"doc", "dependency-backlog.md">> >>
      [] k = 5 -> << <<"doc", "feature-to-code-map.md">> >>
      [] OTHER -> << <<"doc", "rt-matrix.md">>, <<"date", d>> >>

\* the text create_readme writes
ReadmeContent == << <<"doc", "README.md">> >>

-----------------------------------------------------------------------------
(* initialize(): sequencing of the steps *)

\* Path(template_source): the root the template files are read under
SourceRoot(ts) == Str(ts)

\* faulty variant: the README is written before the state documents
StepAfterReadmeFirst(step, ts) ==
    CASE step = "create_directories" ->
            IF Truthy(ts) THEN "copy_templates" ELSE "create_initial_config"
      [] step = "copy_templates" -> "create_initial_config"
      [] step = "create_initial_config" -> "create_readme"
      [] step = "create_readme" -> "create_initial_state"
      [] OTHER -> "done"

\* the step initialize() calls once `step` has returned
StepAfter(step, ts) ==
    CASE step = "create_directories" ->
            IF Truthy(ts) THEN "copy_templates" ELSE "create_initial_config"
      [] step = "copy_templates" -> "create_initial_config"
      [] step = "create_initial_config" -> "create_initial_state"
      [] step = "create_initial_state" -> "create_readme"
      [] OTHER -> "done"

\* faulty variant: the exception of a step is swallowed and the run goes on
OnResultSwallowed(ok, next) == next

\* initialize() catches nothing: a step that raised ends the run
OnResult(ok, next) == IF ok THEN next ELSE "raised"

Call(step) == <<"call", step>>
Ret(step) == <<"ret", step>>

\* faulty variant: the loop leaves out the last entry of dirs
RECURSIVE MkdirAllButLast(_, _)
MkdirAllButLast(f, k) ==
    IF k >= Len(dirs) THEN [fs |-> f, ok |-> TRUE]
    ELSE LET r == Mkdir(f, ProjectRoot, workflow_dir \o dirs[k])
         IN  IF r.ok THEN MkdirAllButLast(r.fs, k + 1) ELSE r

\* the loop of create_directories over dirs, from its k-th entry
RECURSIVE MkdirAll(_, _)
MkdirAll(f, k) ==
    IF k > Len(dirs) THEN [fs |-> f, ok |-> TRUE]
    ELSE LET r == Mkdir(f, ProjectRoot, workflow_dir \o dirs[k])
         IN  IF r.ok THEN MkdirAll(r.fs, k + 1) ELSE r

\* faulty variant: a missing top-level template is skipped without a message
NotFoundSilent(out, t) == out

\* what copy_templates prints for a top-level template that is not found
NotFound(out, t) == Append(out, <<"warn", t>>)

\* what copy_templates prints for a state template that is not found
StateNotFound(out, t) == out

Copied(out, t) == Append(out, <<"copied", t>>)

-----------------------------------------------------------------------------
(* Actions *)

\* main(): parse the command line, construct the initializer, call initialize()
Main(a, d, flt) ==
    /\ pc \in {"idle", "done", "raised"}
    /\ runs < MaxRuns
    /\ args' = a
    /\ config_data' = ParseArgs(a)
    /\ date' = d
    /\ fault' = flt
    /\ pc' = "create_directories"
    /\ i' = 1
    /\ console' = <<>>
    /\ calls' = <<>>
    /\ raisedIn' = ""
    /\ runs' = runs + 1
    /\ UNCHANGED <<fs, completed>>

CreateDirectories ==
    /\ pc = "create_directories"
    /\ LET r == MkdirAll(fs, 1)
           next == StepAfter("create_directories", args.template_source)
       IN  /\ fs' = r.fs
           /\ pc' = OnResult(r.ok, next)
           /\ raisedIn' = IF pc' = "raised" THEN "create_directories" ELSE raisedIn
           /\ calls' = IF pc' = "raised"
                       THEN Append(calls, Call("create_directories"))
                       ELSE calls \o <<Call("create_directories"),
                                       Ret("create_directories")>>
           /\ console' = IF pc' = "create_initial_config"
                         THEN Append(console, <<"skip", "">>) ELSE console
    /\ i' = 1
    /\ UNCHANGED <<fault, args, config_data, date, completed, runs>>

\* one iteration of the first loop of copy_templates
CopyTemplate ==
    /\ pc = "copy_templates"
    /\ i \in 1..Len(templates)
    /\ LET t == templates[i]
           sroot == SourceRoot(args.template_source)
           source == workflow_dir \o <<"templates", t>>
           dest == workflow_dir \o <<"templates", t>>
           r == IF Exists(fs, sroot, source)
                THEN Copy2(fs, sroot, source, ProjectRoot, dest)
                ELSE [fs |-> fs, ok |-> TRUE]
       IN  /\ fs' = r.fs
           /\ pc' = OnResult(r.ok, "copy_templates")
           /\ raisedIn' = IF pc' = "raised" THEN "copy_templates" ELSE raisedIn
           /\ console' = IF ~Exists(fs, sroot, source) THEN NotFound(console, t)
                         ELSE IF r.ok THEN Copied(console, t) ELSE console
    /\ calls' = IF i = 1 THEN Append(calls, Call("copy_templates")) ELSE calls
    /\ i' = i + 1
    /\ UNCHANGED <<fault, args, config_data, date, completed, runs>>

\* one iteration of the second loop of copy_templates
CopyStateTemplate ==
    /\ pc = "copy_templates"
    /\ i \in (Len(templates) + 1)..(Len(templates) + Len(state_templates))
    /\ LET t == state_templates[i - Len(templates)]
           last == i = Len(templates) + Len(state_templates)
           sroot == SourceRoot(args.template_source)
           source == workflow_dir \o t
           dest == workflow_dir \o StateDest(t)
           r == IF Exists(fs, sroot, source)
                THEN Copy2(fs, sroot, source, ProjectRoot, dest)
                ELSE [fs |-> fs, ok |-> TRUE]
           next == IF last THEN StepAfter("copy_templates", args.template_source)
                   ELSE "copy_templates"
       IN  /\ fs' = r.fs
           /\ pc' = OnResult(r.ok, next)
           /\ raisedIn' = IF pc' = "raised" THEN "copy_templates" ELSE raisedIn
           /\ console' = IF ~Exists(fs, sroot, source)
                         THEN StateNotFound(console, t[Len(t)])
                         ELSE IF r.ok THEN Copied(console, t[Len(t)]) ELSE console
           /\ calls' = IF last /\ pc' # "raised"
                       THEN Append(calls, Ret("copy_templates")) ELSE calls
           /\ i' = IF last THEN 1 ELSE i + 1
    /\ UNCHANGED <<fault, args, config_data, date, completed, runs>>

CreateInitialConfig ==
    /\ pc = "create_initial_config"
    /\ LET r == WriteFile(fs, ProjectRoot, config_file, YamlContent(config_data))
           next == StepAfter("create_initial_config", args.template_source)
       IN  /\ fs' = r.fs
           /\ pc' = OnResult(r.ok, next)
           /\ raisedIn' = IF pc' = "raised" THEN "create_initial_config" ELSE raisedIn
           /\ calls' = IF pc' = "raised"
                       THEN Append(calls, Call("create_initial_config"))
                       ELSE calls \o <<Call("create_initial_config"),
                                       Ret("create_initial_config")>>
    /\ i' = 1
    /\ UNCHANGED <<fault, args, config_data, date, console, completed, runs>>

\* one write_text of create_initial_state
CreateInitialState ==
    /\ pc = "create_initial_state"
    /\ i \in 1..Len(state_docs)
    /\ LET last == i = Len(state_docs)
           r == WriteFile(fs, ProjectRoot, workflow_dir \o state_docs[i],
                          StateContent(i, ProjectRoot, date))
           next == IF last
                   THEN StepAfter("create_initial_state", args.template_source)
                   ELSE "create_initial_state"
           begun == IF i = 1 THEN Append(calls, Call("create_initial_state"))
                    ELSE calls
       IN  /\ fs' = r.fs
           /\ pc' = OnResult(r.ok, next)
           /\ raisedIn' = IF pc' = "raised" THEN "create_initial_state" ELSE raisedIn
           /\ calls' = IF last /\ pc' # "raised"
                       THEN Append(begun, Ret("create_initial_state")) ELSE begun
           /\ i' = IF last THEN 1 ELSE i + 1
    /\ UNCHANGED <<fault, args, config_data, date, console, completed, runs>>

CreateReadme ==
    /\ pc = "create_readme"
    /\ LET r == WriteFile(fs, ProjectRoot, readme, ReadmeContent)
           next == StepAfter("create_readme", args.template_source)
       IN  /\ fs' = r.fs
           /\ pc' = OnResult(r.ok, next)
           /\ raisedIn' = IF pc' = "raised" THEN "create_readme" ELSE raisedIn
           /\ calls' = IF pc' = "raised"
                       THEN Append(calls, Call("create_readme"))
                       ELSE calls \o <<Call("create_readme"), Ret("create_readme")>>
           /\ completed' = IF pc' = "done" THEN completed + 1 ELSE completed
    /\ i' = 1
    /\ UNCHANGED <<fault, args, config_data, date, console, runs>>

Step ==
    \/ CreateDirectories
    \/ CopyTemplate
    \/ CopyStateTemplate
    \/ CreateInitialConfig
    \/ CreateInitialState
    \/ CreateReadme

-----------------------------------------------------------------------------
(* Initial states and inputs *)

\* the bytes of a template file of the template source
TemplateContent(p) == << <<"template", p[Len(p)]>> >>

\* a template source tree holding the template files S
TemplateTree(S) ==
    [p \in AllPaths |-> IF p \in S THEN File(TemplateContent(p))
                        ELSE IF p \in DirPaths THEN DirNode ELSE Absent]

\* a project path without a workflow directory; the project directory itself
\* may not exist yet
EmptyProject(rootExists) ==
    [p \in AllPaths |-> IF p = <<>> /\ rootExists THEN DirNode ELSE Absent]

AllSources == TemplateSources \cup StateSources

SomeSources ==
    {workflow_dir \o <<"templates", "REQ-template.md">>,
     workflow_dir \o <<"templates", "IMP-template.md">>,
     workflow_dir \o <<"parallel-tasks", "active-tasks-template.md">>,
     workflow_dir \o <<"rt-matrix-template.md">>}

Dates == {"2026-01-01", "2026-01-02"}

Init(trees) ==
    /\ fs \in {[r \in Roots |-> IF r = ProjectRoot THEN EmptyProject(b)
                                ELSE TemplateTree(S)] :
               b \in BOOLEAN, S \in trees}
    /\ fault = NoFault
    /\ pc = "idle"
    /\ i = 1
    /\ args = [project_name |-> None, project_type |-> PyStr("application"),
               platforms |-> <<>>, template_source |-> None]
    /\ config_data = ParseArgs(args)
    /\ date = ""
    /\ console = <<>>
    /\ calls = <<>>
    /\ raisedIn = ""
    /\ completed = 0
    /\ runs = 0

Namespace(n, ty, pl, ts) ==
    [project_name |-> n, project_type |-> ty, platforms |-> pl,
     template_source |-> ts]

\* command lines of the life-cycle specification
LifecycleArgs ==
    {Namespace(c[1], PyStr("application"), c[2], ts) :
        c \in {<<None, <<>> >>, <<PyStr("Acme"), <<"gateway", "hmi">> >>},
        ts \in {None, PyStr(""), PyStr(TemplateRoot), PyStr(ProjectRoot)}}

LifecycleFaults ==
    {NoFault,
     [path |-> workflow_dir \o <<"03-design", "architecture">>, errno |-> "EACCES"],
     [path |-> workflow_dir \o <<"templates", "IMP-template.md">>, errno |-> "ENOSPC"],
     [path |-> workflow_dir \o <<"parallel-tasks", "active-tasks.md">>, errno |-> "EACCES"],
     [path |-> config_file, errno |-> "ENOSPC"],
     [path |-> readme, errno |-> "EACCES"]}

Next ==
    \/ \E a \in LifecycleArgs, d \in Dates, flt \in LifecycleFaults : Main(a, d, flt)
    \/ Step

Spec == Init({AllSources, SomeSources, {}}) /\ [][Next]_vars

-----------------------------------------------------------------------------
(* The command line specification: one run of main() per behaviour, over    *)
(* every --platforms value of up to MaxTokens comma-separated names         *)

Tokens == {"gateway", "GATEWAY", "hmi", "Hmi", " hmi", "bogus", "", "web-editor"}

PlatformValues == {<<>>} \cup UNION {[1..n -> Tokens] : n \in 1..MaxTokens}

CliArgs ==
    {Namespace(n, ty, pl, None) :
        n \in {None, PyStr("Acme"), PyStr("")},
        ty \in {PyStr("application"), PyStr("library")},
        pl \in PlatformValues}

MainCli == \E a \in CliArgs, d \in Dates : runs < 1 /\ Main(a, d, NoFault)

NextCli ==
    \/ MainCli
    \/ CreateDirectories
    \/ CreateInitialConfig
    \/ CreateInitialState
    \/ CreateReadme

SpecCli == Init({{}}) /\ [][NextCli]_vars

-----------------------------------------------------------------------------
(* Reading the generated files back *)

ConfigNode == fs[ProjectRoot][config_file]

\* the value of the first `key: value` line of config.yml
ProjectField(key) ==
    LET d == ConfigNode.data
    IN  d[CHOOSE k \in 1..Len(d) : d[k][1] = key][2]

\* the `enabled:` value of the entry of config.yml whose id is `id`
EnabledFlag(id) ==
    LET d == ConfigNode.data
    IN  d[(CHOOSE k \in 1..Len(d) : d[k] = <<"id", id>>) + 2][2]

Completed == pc = "done"

-----------------------------------------------------------------------------
(* C1: when main() runs without --project-name, the project name written   *)
(* to config.yml is the literal default "My Project".                      *)
(* The code stores args.project_name (None) under the key "project_name",  *)
(* so dict.get never falls back to the default and the name is "None".     *)
C1_DefaultProjectName ==
    (Completed /\ args.project_name = None)
        => ProjectField("project.name") = "My Project"

-----------------------------------------------------------------------------
(* C3 as stated: a platform is enabled: true exactly when its identifier   *)
(* is one of the names listed in --platforms, all others enabled: false,   *)
(* and names outside the fixed set change no flag.                         *)
C3_EnabledIffListed ==
    Completed =>
        \A id \in Range(PlatformIds) :
            EnabledFlag(id) =
                (IF id \in Range(args.platforms) THEN "true" ELSE "false")

(* C3 amended: a platform is enabled: true exactly when its identifier is  *)
(* the lower-cased form of one of the comma-separated names (names are     *)
(* matched case-insensitively and without trimming), all others are        *)
(* enabled: false, and a name whose lower-cased form is outside the fixed  *)
(* set is ignored without error.                                           *)
C3_EnabledIffListedLowercased ==
    Completed =>
        \A id \in Range(PlatformIds) :
            EnabledFlag(id) =
                (IF \E k \in 1..Len(args.platforms) : Lower(args.platforms[k]) = id
                 THEN "true" ELSE "false")

C3_Witness ==
    /\ Completed
    /\ args.platforms = <<"bogus", "GATEWAY">>
    /\ EnabledFlag("gateway") = "true"
    /\ EnabledFlag("hmi") = "false"

-----------------------------------------------------------------------------
(* C2 as stated: the manifest of create_directories has exactly 40 paths,  *)
(* and once initialize() has completed every one of them is a directory    *)
(* under <path>/.claude-workflow.                                          *)
C2_FortyManifestDirectories ==
    Completed =>
        /\ Cardinality(Range(dirs)) = 40
        /\ \A p \in ManifestPaths : IsDir(fs, ProjectRoot, p)

(* C2 amended: the manifest has exactly 44 paths, and in every state       *)
(* reached after a run of initialize() completed, every one of them is a   *)
(* directory under <path>/.claude-workflow.                                *)
C2_ManifestDirectoriesExist ==
    completed >= 1 =>
        /\ Cardinality(Range(dirs)) = 44
        /\ Len(dirs) = 44
        /\ \A k \in 1..Len(dirs) :
              /\ Under(workflow_dir, workflow_dir \o dirs[k])
              /\ fs[ProjectRoot][workflow_dir \o dirs[k]].kind = "dir"

C2_Witness ==
    /\ Completed
    /\ runs = 1
    /\ fs[ProjectRoot][workflow_dir \o <<"state-history">>].kind = "dir"
    /\ fs[ProjectRoot][workflow_dir \o <<"03-design", "architecture", "adr">>].kind = "dir"

-----------------------------------------------------------------------------
(* Order of the steps *)

\* the call/return events of a complete run, with or without the copy step
ExpectedCalls(withCopy) ==
    <<Call("create_directories"), Ret("create_directories")>>
    \o (IF withCopy THEN <<Call("copy_templates"), Ret("copy_templates")>> ELSE <<>>)
    \o <<Call("create_initial_config"), Ret("create_initial_config"),
         Call("create_initial_state"), Ret("create_initial_state"),
         Call("create_readme"), Ret("create_readme")>>

IsPrefix(s, t) == Len(s) <= Len(t) /\ s = SubSeq(t, 1, Len(s))

(* C6: the steps of initialize() run in the order create_directories,      *)
(* copy_templates, create_initial_config, create_initial_state,            *)
(* create_readme, each starting only after the previous one returned;      *)
(* copy_templates runs iff a template source was supplied, every other     *)
(* step exactly once.                                                      *)
(* As stated, "supplied" is any value given for template_source.           *)
C6_CopyIffSupplied ==
    /\ IsPrefix(calls, ExpectedCalls(args.template_source # None))
    /\ Completed => calls = ExpectedCalls(args.template_source # None)

(* C6 amended: as stated, except that copy_templates runs iff a non-empty  *)
(* template source was supplied: an empty string is treated like an        *)
(* omitted source and the copy step is skipped.                            *)
C6_CopyIffNonEmptySource ==
    LET given == args.template_source # None /\ args.template_source # PyStr("")
    IN  /\ IsPrefix(calls, ExpectedCalls(given))
        /\ Completed => calls = ExpectedCalls(given)
        /\ (~given /\ Len(calls) >= 2) => <<"skip", "">> \in Range(console)

C6_Witness ==
    /\ Completed
    /\ args.template_source = PyStr(TemplateRoot)
    /\ Len(calls) = 10
    /\ calls[3] = Call("copy_templates")

-----------------------------------------------------------------------------
(* Failure of a step *)

StepRank(s) ==
    CASE s = "create_directories" -> 1
      [] s = "copy_templates" -> 2
      [] s = "create_initial_config" -> 3
      [] s = "create_initial_state" -> 4
      [] s = "create_readme" -> 5
      [] s = "done" -> 6
      [] OTHER -> 0

\* the step that cannot get past a refused path: the one that always writes it
RefusedIn(p) ==
    CASE p = config_file -> 3
      [] p = workflow_dir \o <<"parallel-tasks", "active-tasks.md">> -> 4
      [] p = readme -> 5
      [] OTHER -> 6

(* C7: when a step of initialize() fails with a file-system error, the     *)
(* error propagates to the caller, no later step is executed, and what the *)
(* completed steps produced is left in place (no rollback, no cleanup).    *)
(* A run that raised changes nothing any more; the failing step removes    *)
(* nothing and alters at most the path the file system refused; a step     *)
(* behind the one that writes a refused path is never reached.             *)
C7_FailureStopsRunKeepsResults ==
    /\ [][ /\ pc = "raised" => (fs' = fs /\ (pc' = "raised" \/ runs' = runs + 1))
           /\ pc' = "raised" =>
                \A p \in AllPaths :
                    /\ fs'[ProjectRoot][p].kind = fs[ProjectRoot][p].kind
                         \/ fs[ProjectRoot][p].kind = "absent"
                    /\ fs'[ProjectRoot][p] = fs[ProjectRoot][p]
                         \/ fs[ProjectRoot][p].kind = "absent"
                         \/ p = fault.path ]_vars
    /\ [](/\ (fault # NoFault /\ runs >= 1) => StepRank(pc) <= RefusedIn(fault.path)
          /\ pc = "raised" =>
                /\ raisedIn # ""
                /\ calls[Len(calls)] = Call(raisedIn)
                /\ IsPrefix(SubSeq(calls, 1, Len(calls) - 1),
                            ExpectedCalls(Truthy(args.template_source))))

C7_Witness ==
    /\ pc = "raised"
    /\ raisedIn = "create_initial_state"
    /\ ConfigNode.kind = "file"
    /\ fs[ProjectRoot][workflow_dir \o <<"current-phase.md">>].kind = "file"
    /\ fs[ProjectRoot][workflow_dir \o <<"templates", "REQ-template.md">>].kind = "file"
    /\ fs[ProjectRoot][readme].kind = "absent"

-----------------------------------------------------------------------------
(* Frame of initialize() *)

Changed(r, p) == fs'[r][p] # fs[r][p]

\* the current run reads templates below root r
ReadsTemplatesOf(r) ==
    pc \notin {"idle", "done", "raised"} /\ Truthy(args.template_source)
        /\ SourceRoot(args.template_source) = r

-----------------------------------------------------------------------------
-----------------------------------------------------------------------------
(* C10: a state template the template source supplies is copied to the     *)
(* destination name without "-template", and create_initial_state of the   *)
(* same run overwrites each of those five files: after initialize() has    *)
(* completed they hold the generated content, whatever the template source.*)
C10_StateTemplatesOverwritten ==
    /\ [][ (/\ pc = "copy_templates"
            /\ i > Len(templates)
            /\ pc' # "raised"
            /\ fs[SourceRoot(args.template_source)]
                 [workflow_dir \o state_templates[i - Len(templates)]].kind = "file")
           => fs'[ProjectRoot][workflow_dir \o state_docs[i - Len(templates) + 1]]
                = fs[SourceRoot(args.template_source)]
                    [workflow_dir \o state_templates[i - Len(templates)]] ]_vars
    /\ [](Completed =>
            \A k \in 2..Len(state_docs) :
                /\ fs[ProjectRoot][workflow_dir \o state_docs[k]].kind = "file"
                /\ fs[ProjectRoot][workflow_dir \o state_docs[k]].data[1]
                     = <<"doc", state_docs[k][Len(state_docs[k])]>>
                /\ \A j \in 2..Len(fs[ProjectRoot][workflow_dir \o state_docs[k]].data) :
                      fs[ProjectRoot][workflow_dir \o state_docs[k]].data[j]
                        = <<"date", date>>)

C10_Witness ==
    /\ Completed
    /\ args.template_source = PyStr(TemplateRoot)
    /\ <<"copied", "active-tasks-template.md">> \in Range(console)
    /\ <<"copied", "dependency-backlog-template.md">> \in Range(console)
    /\ fs[ProjectRoot][workflow_dir \o <<"dependency-backlog.md">>]
         = File(<< <<"doc", "dependency-backlog.md">> >>)

-----------------------------------------------------------------------------
(* The template copy specification: one run on a fresh project path with a  *)
(* template source holding any subset of the nine template files            *)

CopyArgs == {Namespace(None, PyStr("application"), <<>>, PyStr(TemplateRoot))}

CopyFaults ==
    {NoFault,
     [path |-> workflow_dir \o <<"templates", "IMP-template.md">>, errno |-> "ENOSPC"],
     [path |-> workflow_dir \o <<"parallel-tasks", "active-tasks.md">>, errno |-> "EACCES"]}

MainCopy ==
    \E a \in CopyArgs, flt \in CopyFaults : runs < 1 /\ Main(a, "2026-01-01", flt)

NextCopy ==
    \/ MainCopy
    \/ Step

SpecCopy == Init(SUBSET AllSources) /\ [][NextCopy]_vars

\* the source path the current iteration of copy_templates looks for
CurrentSource ==
    IF i <= Len(templates) THEN workflow_dir \o <<"templates", templates[i]>>
    ELSE workflow_dir \o state_templates[i - Len(templates)]

\* copy_templates is looking for a file its template source does not hold
LooksForMissing ==
    /\ pc = "copy_templates"
    /\ fs[SourceRoot(args.template_source)][CurrentSource].kind = "absent"

CopyReturned == Ret("copy_templates") \in Range(calls)

TopLevel(k) == workflow_dir \o <<"templates", templates[k]>>

-----------------------------------------------------------------------------
(* C4: for a template source that lacks some of the four top-level         *)
(* templates, copy_templates does not raise on a missing one, copies every *)
(* top-level template that is present, and writes nothing at the           *)
(* destination of a missing one (no partial or empty file).                *)
C4_MissingTemplatesSkipped ==
    /\ [][ (LooksForMissing /\ i <= Len(templates)) =>
             /\ fs' = fs
             /\ pc' = "copy_templates"
             /\ i' = i + 1
             /\ raisedIn' = "" ]_vars
    /\ [](CopyReturned =>
            \A k \in 1..Len(templates) :
                IF fs[TemplateRoot][TopLevel(k)].kind = "absent"
                THEN fs[ProjectRoot][TopLevel(k)].kind = "absent"
                ELSE fs[ProjectRoot][TopLevel(k)] = fs[TemplateRoot][TopLevel(k)])

C4_Witness ==
    /\ CopyReturned
    /\ fs[TemplateRoot][TopLevel(1)].kind = "absent"
    /\ fs[TemplateRoot][TopLevel(3)].kind = "absent"
    /\ fs[ProjectRoot][TopLevel(1)].kind = "absent"
    /\ fs[ProjectRoot][TopLevel(2)] = File(<< <<"template", "FE-template.md">> >>)
    /\ fs[ProjectRoot][TopLevel(4)].kind = "file"

-----------------------------------------------------------------------------
(* C5 as stated: for each of the nine template files, when it is absent    *)
(* from the template source, copy_templates prints a warning for it and    *)
(* goes on with the next file.                                             *)
C5_WarningForEveryMissingFile ==
    CopyReturned =>
        \A p \in AllSources :
            fs[TemplateRoot][p].kind = "absent"
                => <<"warn", p[Len(p)]>> \in Range(console)

(* C5 amended: for each of the four top-level templates, when it is absent *)
(* from the template source, copy_templates prints a warning for it and    *)
(* goes on with the next file; an absent state template (the other five)   *)
(* is skipped without any message, and copy_templates goes on as well.     *)
C5_WarningForMissingTopLevelOnly ==
    /\ [][ LooksForMissing =>
             /\ pc' # "raised"
             /\ fs' = fs
             /\ IF i <= Len(templates)
                THEN /\ console' = Append(console, <<"warn", templates[i]>>)
                     /\ pc' = "copy_templates" /\ i' = i + 1
                ELSE /\ console' = console
                     /\ \/ pc' = "copy_templates" /\ i' = i + 1
                        \/ /\ i = Len(templates) + Len(state_templates)
                           /\ pc' = "create_initial_config" ]_vars
    /\ [](CopyReturned =>
            /\ \A k \in 1..Len(templates) :
                  fs[TemplateRoot][TopLevel(k)].kind = "absent"
                      <=> <<"warn", templates[k]>> \in Range(console)
            /\ \A p \in StateSources :
                  fs[TemplateRoot][p].kind = "absent"
                      => \A e \in Range(console) : e[2] # p[Len(p)])

C5_Witness ==
    /\ CopyReturned
    /\ fs[TemplateRoot][TopLevel(2)].kind = "absent"
    /\ fs[TemplateRoot][workflow_dir \o <<"rt-matrix-template.md">>].kind = "absent"
    /\ fs[TemplateRoot][workflow_dir \o <<"feature-to-code-map-template.md">>].kind = "file"
    /\ <<"warn", "FE-template.md">> \in Range(console)
    /\ <<"copied", "feature-to-code-map-template.md">> \in Range(console)

=============================================================================
